---- MODULE Spec2Model ----
(***************************************************************************)
(* dat.fire: a model of src/index.js.                                      *)
(*                                                                         *)
(* src/index.js holds two versions of the DatFire class (lines 1-316 and   *)
(* lines 318-565).  The variable `variant` says which of the two an        *)
(* instance runs; every handler is translated for both.                    *)
(*                                                                         *)
(* JavaScript numbers are modelled as exact rationals [n, d] (rounding of  *)
(* IEEE doubles is not modelled).  A thrown TypeError / DOMException ends  *)
(* the handler where it is thrown: the assignments made before the throw   *)
(* are kept, and `threw` records the exception.                            *)
(***************************************************************************)
EXTENDS Integers, Sequences, FiniteSets, TLC

(***************************************************************************)
(* Bounds of the model.                                                    *)
(***************************************************************************)
MaxRegistry == 3     \* longest registry (this.controllers) explored
RawSteps    == 4     \* dial values are k/RawSteps, k in 0..RawSteps

(***************************************************************************)
(* Exact rational arithmetic for JavaScript numbers.                       *)
(***************************************************************************)
RECURSIVE GCD(_, _)
GCD(a, b) == IF b = 0 THEN a ELSE GCD(b, a % b)

Abs(a) == IF a < 0 THEN -a ELSE a

Rat(n, d) ==
  LET g == GCD(Abs(n), Abs(d))
      s == IF d < 0 THEN -1 ELSE 1
  IN  [n |-> (s * n) \div g, d |-> (s * d) \div g]

RAdd(a, b) == Rat(a.n * b.d + b.n * a.d, a.d * b.d)
RSub(a, b) == Rat(a.n * b.d - b.n * a.d, a.d * b.d)
RMul(a, b) == Rat(a.n * b.n, a.d * b.d)
RDiv(a, b) == Rat(a.n * b.d, a.d * b.n)
RGt(a, b)  == a.n * b.d > b.n * a.d
RLt(a, b)  == a.n * b.d < b.n * a.d
RFloor(a)  == a.n \div a.d

Zero == Rat(0, 1)
One  == Rat(1, 1)
Half == Rat(1, 2)

(***************************************************************************)
(* JavaScript values the class handles.                                    *)
(***************************************************************************)
Undefined    == [t |-> "undefined"]
Num(r)       == [t |-> "number", v |-> r]
Bool(b)      == [t |-> "boolean", v |-> b]
Str(s)       == [t |-> "string", v |-> s]
EntryRef(i)  == [t |-> "entry", i |-> i]    \* the object this.controllers[i], i from 0
CtrlRef(w)   == [t |-> "ctrl", w |-> w]     \* a dat.GUI controller
LiRef(w)     == [t |-> "li", w |-> w]       \* ctrl.domElement.parentElement.parentElement

Truthy(x) ==
  CASE x.t = "undefined" -> FALSE
    [] x.t = "null"      -> FALSE
    [] x.t = "boolean"   -> x.v
    [] x.t = "number"    -> x.v.n # 0
    [] OTHER             -> TRUE

TypeOf(x) == x.t

(***************************************************************************)
(* The dat.GUI controllers of the host page.  `property` is the bound      *)
(* property name, `color` says whether the controller's <li> carries the   *)
(* class "color", `initial` is the value getValue() returns at start,      *)
(* `min`/`max` are __min/__max and `options` is                            *)
(* __select.childNodes.length (0 when the controller has no <select>).     *)
(***************************************************************************)
HSV(h, s, v) == [h |-> h, s |-> s, v |-> v]
\* the host keeps its colours as hex numbers (0xffffff): __color.toOriginal()
\* gives a number, and typeof getValue() of a color controller is "number"
toOriginal(c) == [t |-> "number", v |-> <<"hsv", c.h, c.s, c.v>>]

Ctrl ==
  [w \in 1..7 |->
    CASE w = 1 -> [property |-> "speed", color |-> FALSE, initial |-> Num(One),
                   min |-> Num(Zero), max |-> Num(Rat(3, 1)), options |-> 0]
      [] w = 2 -> [property |-> "dieSpeed", color |-> FALSE, initial |-> Num(Zero),
                   min |-> Num(Zero), max |-> Num(Rat(1, 10)), options |-> 0]
      [] w = 3 -> [property |-> "color1", color |-> TRUE,
                   initial |-> toOriginal(HSV(Zero, Zero, One)),
                   min |-> Undefined, max |-> Undefined, options |-> 0]
      [] w = 4 -> [property |-> "enabled", color |-> FALSE, initial |-> Bool(FALSE),
                   min |-> Undefined, max |-> Undefined, options |-> 0]
      [] w = 5 -> [property |-> "mode", color |-> FALSE, initial |-> Str("a"),
                   min |-> Undefined, max |-> Undefined, options |-> 3]
      [] w = 6 -> [property |-> "value", color |-> FALSE, initial |-> Num(Rat(2, 1)),
                   min |-> Num(One), max |-> Num(Rat(2, 1)), options |-> 0]
      \* a second object's "speed", shown in a folder of its own
      [] w = 7 -> [property |-> "speed", color |-> FALSE, initial |-> Num(Zero),
                   min |-> Num(Zero), max |-> Num(One), options |-> 0]]

Widgets == DOMAIN Ctrl

\* the value -1 of a controller's timeout field (line 261): no timer
NoTimer == <<0, 0>>

(***************************************************************************)
(* The dat.GUI instances passed to init: __controllers is the ordered list *)
(* of top-level controllers, __folders the folders in key order, each with *)
(* its own __controllers.                                                  *)
(***************************************************************************)
Gui ==
  [k \in 1..5 |->
    CASE k = 1 -> [controllers |-> <<>>,        folders |-> <<>>]
      [] k = 2 -> [controllers |-> <<1, 2, 3>>, folders |-> <<>>]
      [] k = 3 -> [controllers |-> <<4>>,       folders |-> << <<5>> >>]
      [] k = 4 -> [controllers |-> <<>>,        folders |-> << <<>>, <<6, 1>> >>]
      [] k = 5 -> [controllers |-> <<1>>,       folders |-> << <<7>> >>]]

\* the calls of init a host makes: init(gui) / init(gui, null, params) take every
\* controller of the GUI, init(gui, [ ... ], params) an explicit array of some
InitCall(g, isArray, items) == [gui |-> g, isArray |-> isArray, items |-> items]

InitCalls ==
  { InitCall(Gui[k], FALSE, <<>>) : k \in DOMAIN Gui } \cup
  { InitCall(Gui[1], TRUE, <<>>), InitCall(Gui[2], TRUE, <<1, 2>>),
    InitCall(Gui[2], TRUE, <<2>>), InitCall(Gui[4], TRUE, <<6>>) }

\* the arrays a host passes to addControllers after construction
AddLists == { <<6, 1>> }

\* the root references a host configures (params.dbRef); DEFAULT_ROOT_DB is "things/"
DEFAULT_ROOT_DB == "things/"
DbRefs == { DEFAULT_ROOT_DB, "things" }

\* payloads written to the prev / next paths (buttons) and to value paths (dial)
Null == [t |-> "null"]
NavPayload ==
  [k \in 1..5 |-> CASE k = 1 -> Bool(TRUE) [] k = 2 -> Bool(FALSE) [] k = 3 -> Num(Zero)
                     [] k = 4 -> Num(One)   [] k = 5 -> Null]
Raws == { Num(Rat(k, RawSteps)) : k \in 0..RawSteps }

VARIABLES
  variant,                 \* 1: class of lines 46-316, 2: class of lines 363-565
  gui,                     \* this.gui
  params,                  \* this.params
  controllers,             \* this.controllers: sequence of [key, controller]
  currentControllerIndex,  \* this.currentControllerIndex
  currentController,       \* this.currentController
  subs,                    \* database.ref(path).on('value', handler), in order
  bg,                      \* style.backgroundColor of each controller's <li>
  value,                   \* what each controller's getValue() returns
  color,                   \* each controller's __color (h, s, v)
  selectedIndex,           \* each controller's __select.selectedIndex
  timeout,                 \* each controller's .timeout field
  timers,                  \* pending setTimeout callbacks: [id, w]
  fireList,                \* the <li> elements that are children of this.fireList
  threw,                   \* exception thrown by the last operation, or "none"
  last,                    \* the last operation, its arguments and what it dispatched
  initLen,                 \* history: registry length when init returned (-1 before)
  run                      \* history: cursor index before, and the triggers of, the
                           \* current run of truthy prev / next notifications

vars == <<variant, gui, params, controllers, currentControllerIndex,
          currentController, subs, bg, value, color, selectedIndex, timeout,
          timers, fireList, threw, last, initLen, run>>

(***************************************************************************)
(* constructor (lines 55-62 / 372-379); the controllers start as dat.GUI   *)
(* built them.                                                             *)
(***************************************************************************)
Init ==
  /\ variant \in {1, 2}
  /\ gui = Undefined
  /\ params = Undefined
  /\ controllers = <<>>
  /\ currentControllerIndex = -1
  /\ currentController = Undefined
  /\ subs = <<>>
  /\ bg = [w \in Widgets |-> ""]
  /\ value = [w \in Widgets |-> Ctrl[w].initial]
  /\ color = [w \in Widgets |-> HSV(Zero, Zero, One)]
  /\ selectedIndex = [w \in Widgets |-> 0]
  /\ timeout = [w \in Widgets |-> NoTimer]
  /\ timers = {}
  /\ fireList = {}
  /\ threw = "none"
  /\ last = [op |-> "constructor"]
  /\ initLen = -1
  /\ run = [start |-> -1, ops |-> <<>>]

(***************************************************************************)
(* getDefaultParams (lines 306-315 / 555-564) and handleParams             *)
(* (lines 141-147 / 427-429): Object.assign of the defaults and the        *)
(* caller's params.  The value channel is valueRef in variant 1 and        *)
(* dialRef in variant 2.                                                   *)
(***************************************************************************)
getDefaultParams ==
  [dbRef |-> DEFAULT_ROOT_DB, nextRef |-> "next", prevRef |-> "prev",
   valueRef |-> IF variant = 1 THEN "value" ELSE Undefined,
   dialRef |-> IF variant = 1 THEN Undefined ELSE "dial",
   usePrevNext |-> FALSE, simpleGui |-> FALSE]

\* the params objects a host passes: overrides of dbRef, usePrevNext, simpleGui
HostParams ==
  [dbRef : {DEFAULT_ROOT_DB}, usePrevNext : BOOLEAN, simpleGui : BOOLEAN] \cup
  [dbRef : DbRefs \ {DEFAULT_ROOT_DB}, usePrevNext : {FALSE}, simpleGui : {FALSE}]

handleParams(p) ==
  [getDefaultParams EXCEPT !.dbRef = p.dbRef, !.usePrevNext = p.usePrevNext,
                           !.simpleGui = p.simpleGui]

(***************************************************************************)
(* Registry lookups.  JavaScript indexes this.controllers from 0.          *)
(***************************************************************************)
At(ctrls, i) == IF i \in 0..(Len(ctrls) - 1) THEN EntryRef(i) ELSE Undefined

RECURSIVE FirstMatch(_, _, _)
FirstMatch(ctrls, key, i) ==
  IF i >= Len(ctrls) THEN Undefined
  ELSE IF ctrls[i + 1].key = key THEN CtrlRef(ctrls[i + 1].controller)
  ELSE FirstMatch(ctrls, key, i + 1)

\* getControllerByKey returning the last entry with the key
getControllerByKey_LastMatch(ctrls, key) ==
  LET hits == { i \in DOMAIN ctrls : ctrls[i].key = key }
  IN  IF hits = {} THEN Undefined
      ELSE CtrlRef(ctrls[CHOOSE i \in hits : \A j \in hits : j <= i].controller)

getControllerByKey(ctrls, key) == FirstMatch(ctrls, key, 0)

(***************************************************************************)
(* Highlighting.  A property read on undefined throws TypeError; a         *)
(* registry entry {key, controller} has neither style, domElement nor      *)
(* getParent; a controller has domElement (and getParent once variant 1    *)
(* registered it) but no style; an <li> has style.                         *)
(***************************************************************************)
Ok(b)    == [threw |-> "none", bg |-> b]
Throw(b) == [threw |-> "TypeError", bg |-> b]

\* variant 1, line 249: ctrl.getParent(), called on whatever x is
callGetParent(x) == IF x.t = "ctrl" THEN LiRef(x.w) ELSE Undefined

\* variant 2, lines 542-544: this.getParent(controller)
getParent(x) == IF x.t = "ctrl" THEN LiRef(x.w) ELSE Undefined

\* lines 287-289 (parent) and 534-536 (controller)
removeBackground(x, b) ==
  LET parent == IF variant = 1 THEN x ELSE getParent(x)
  IN  IF parent.t = "li" THEN Ok([b EXCEPT ![parent.w] = ""]) ELSE Throw(b)

\* lines 291-293 (parent) and 538-540 (controller)
addBackground(x, b) ==
  LET parent == IF variant = 1 THEN x ELSE getParent(x)
  IN  IF parent.t = "li" THEN Ok([b EXCEPT ![parent.w] = "#555555"]) ELSE Throw(b)

(***************************************************************************)
(* A notification delivers a snapshot; init calls handleNext(true) with a  *)
(* plain value.  `x.val ? x.val() : x` (lines 150, 168).                   *)
(***************************************************************************)
Snapshot(key, val) == [t |-> "snapshot", key |-> key, val |-> val]
Decode(x) == IF x.t = "snapshot" THEN x.val ELSE x

(***************************************************************************)
(* handlePrev (lines 149-165 / 431-447), as a function of the state it     *)
(* reads; the result holds the fields it writes and the exception thrown.  *)
(***************************************************************************)
NavResult(i, cc, b, e) == [idx |-> i, cc |-> cc, bg |-> b, threw |-> e]

\* handlePrev without the wrap of lines 154-156
handlePrev_NoWrap(prev, idx, cc, ctrls, b) ==
  IF ~Truthy(Decode(prev)) THEN NavResult(idx, cc, b, "none")
  ELSE
    LET i1 == idx - 1
        i2 == i1
        r1 == IF Truthy(cc)
              THEN removeBackground(IF variant = 1 THEN callGetParent(cc) ELSE cc, b)
              ELSE Ok(b)
        cc2 == At(ctrls, i2)
        r2 == addBackground(IF variant = 1 THEN callGetParent(cc2) ELSE cc2, r1.bg)
    IN  IF r1.threw # "none" THEN NavResult(i2, cc, r1.bg, r1.threw)
        ELSE NavResult(i2, cc2, r2.bg, r2.threw)

\* handlePrev wrapping to the first entry instead of the last
handlePrev_WrapToFirst(prev, idx, cc, ctrls, b) ==
  IF ~Truthy(Decode(prev)) THEN NavResult(idx, cc, b, "none")
  ELSE
    LET i1 == idx - 1
        i2 == IF i1 < 0 THEN 0 ELSE i1
        r1 == IF Truthy(cc)
              THEN removeBackground(IF variant = 1 THEN callGetParent(cc) ELSE cc, b)
              ELSE Ok(b)
        cc2 == At(ctrls, i2)
        r2 == addBackground(IF variant = 1 THEN callGetParent(cc2) ELSE cc2, r1.bg)
    IN  IF r1.threw # "none" THEN NavResult(i2, cc, r1.bg, r1.threw)
        ELSE NavResult(i2, cc2, r2.bg, r2.threw)

handlePrev(prev, idx, cc, ctrls, b) ==
  IF ~Truthy(Decode(prev)) THEN NavResult(idx, cc, b, "none")
  ELSE
    LET i1 == idx - 1
        i2 == IF i1 < 0 THEN Len(ctrls) - 1 ELSE i1
        r1 == IF Truthy(cc)
              THEN removeBackground(IF variant = 1 THEN callGetParent(cc) ELSE cc, b)
              ELSE Ok(b)
        cc2 == At(ctrls, i2)
        r2 == addBackground(IF variant = 1 THEN callGetParent(cc2) ELSE cc2, r1.bg)
    IN  IF r1.threw # "none" THEN NavResult(i2, cc, r1.bg, r1.threw)
        ELSE NavResult(i2, cc2, r2.bg, r2.threw)

(***************************************************************************)
(* handleNext (lines 167-183 / 449-465).                                   *)
(***************************************************************************)
\* handleNext with > for the >= of line 172
handleNext_OffByOne(next, idx, cc, ctrls, b) ==
  IF ~Truthy(Decode(next)) THEN NavResult(idx, cc, b, "none")
  ELSE
    LET i1 == idx + 1
        i2 == IF i1 > Len(ctrls) THEN 0 ELSE i1
        r1 == IF Truthy(cc) THEN removeBackground(cc, b) ELSE Ok(b)
        cc2 == At(ctrls, i2)
        r2 == addBackground(cc2, r1.bg)
    IN  IF r1.threw # "none" THEN NavResult(i2, cc, r1.bg, r1.threw)
        ELSE NavResult(i2, cc2, r2.bg, r2.threw)

\* handleNext without the `if (next)` of line 169
handleNext_NoGuard(next, idx, cc, ctrls, b) ==
  LET i1 == idx + 1
      i2 == IF i1 >= Len(ctrls) THEN 0 ELSE i1
      r1 == IF Truthy(cc) THEN removeBackground(cc, b) ELSE Ok(b)
      cc2 == At(ctrls, i2)
      r2 == addBackground(cc2, r1.bg)
  IN  IF r1.threw # "none" THEN NavResult(i2, cc, r1.bg, r1.threw)
      ELSE NavResult(i2, cc2, r2.bg, r2.threw)

handleNext(next, idx, cc, ctrls, b) ==
  IF ~Truthy(Decode(next)) THEN NavResult(idx, cc, b, "none")
  ELSE
    LET i1 == idx + 1
        i2 == IF i1 >= Len(ctrls) THEN 0 ELSE i1
        r1 == IF Truthy(cc) THEN removeBackground(cc, b) ELSE Ok(b)
        cc2 == At(ctrls, i2)
        r2 == addBackground(cc2, r1.bg)
    IN  IF r1.threw # "none" THEN NavResult(i2, cc, r1.bg, r1.threw)
        ELSE NavResult(i2, cc2, r2.bg, r2.threw)

(***************************************************************************)
(* addControllers (lines 241-255 / 518-525) and setFireTo (260-278).       *)
(* Variant 1 reads this.params for every controller of the list, which     *)
(* throws while this.params is undefined (before init); the concat of      *)
(* line 254 is then not reached.  setFireTo resets the controller's        *)
(* timeout field to -1.                                                    *)
(***************************************************************************)
Entry(w) == [key |-> Ctrl[w].property, controller |-> w]

RECURSIVE mapControllers(_)
mapControllers(list) ==
  IF list = <<>> THEN <<>>
  ELSE <<Entry(Head(list))>> \o mapControllers(Tail(list))

Range(f) == { f[i] : i \in DOMAIN f }

setFireTo(list, p, tmo) ==
  IF variant = 1 /\ p # Undefined /\ p.simpleGui
  THEN [w \in Widgets |-> IF w \in Range(list) THEN NoTimer ELSE tmo[w]]
  ELSE tmo

\* addControllers putting the new entries in front of the registry (line 254)
addControllers_Prepend(list, ctrls, p, tmo) ==
  IF variant = 1 /\ p = Undefined /\ list # <<>>
  THEN [controllers |-> ctrls, timeout |-> tmo, threw |-> "TypeError"]
  ELSE [controllers |-> mapControllers(list) \o ctrls,
        timeout |-> setFireTo(list, p, tmo), threw |-> "none"]

addControllers(list, ctrls, p, tmo) ==
  IF variant = 1 /\ p = Undefined /\ list # <<>>
  THEN [controllers |-> ctrls, timeout |-> tmo, threw |-> "TypeError"]
  ELSE [controllers |-> ctrls \o mapControllers(list),
        timeout |-> setFireTo(list, p, tmo), threw |-> "none"]

(***************************************************************************)
(* addAllControllersFromGui (lines 229-239 / 506-516): the top-level       *)
(* controllers, then every folder's controllers in folder order; empty     *)
(* lists are skipped.                                                      *)
(***************************************************************************)
RECURSIVE Flatten(_)
Flatten(folders) ==
  IF folders = <<>> THEN <<>> ELSE Head(folders) \o Flatten(Tail(folders))

addAllControllersFromGui(g, ctrls, p, tmo) ==
  addControllers(g.controllers \o Flatten(g.folders), ctrls, p, tmo)

(***************************************************************************)
(* getControllerType (lines 8-19) and controllerMap (lines 28-33).         *)
(* Called on undefined, the read of controller.__li throws.                *)
(***************************************************************************)
\* getControllerType testing the type of the value before the class of the <li>
getControllerType_TypeFirst(c, val) ==
  LET type == TypeOf(val[c.w])
  IN  IF type = "number" \/ type = "boolean" THEN type
      ELSE IF Ctrl[c.w].color THEN "color" ELSE "option"

getControllerType(c, val) ==
  IF Ctrl[c.w].color THEN "color"
  ELSE LET type == TypeOf(val[c.w])
       IN  IF type = "number" \/ type = "boolean" THEN type ELSE "option"

controllerMap ==
  [color |-> "handleColorControl", boolean |-> "handleBooleanControl",
   number |-> "handleNumberControl", option |-> "handleOptionControl"]

(***************************************************************************)
(* map (lines 21-23).                                                      *)
(***************************************************************************)
\* map without the final + outMin
map_NoOffset(v, inMin, inMax, outMin, outMax) ==
  RDiv(RMul(RSub(v, inMin), RSub(outMax, outMin)), RSub(inMax, inMin))

map(v, inMin, inMax, outMin, outMax) ==
  RAdd(RDiv(RMul(RSub(v, inMin), RSub(outMax, outMin)), RSub(inMax, inMin)), outMin)

NaN == [t |-> "number", v |-> [n |-> 0, d |-> 0]]

(***************************************************************************)
(* The four kind handlers (lines 198-227).  Each result holds the          *)
(* controller fields after the call, the arguments of the setValue calls   *)
(* made (`sets`) and the exception thrown.                                 *)
(***************************************************************************)
KindResult(val, col, sel, sets, e) ==
  [value |-> val, color |-> col, selectedIndex |-> sel, sets |-> sets, threw |-> e]

\* lines 198-202 calling setValue on every numeric controller
handleNumberControl_Broadcast(dialValue, w, val, col, sel) ==
  LET arg == IF Ctrl[w].min = Undefined \/ Ctrl[w].max = Undefined THEN NaN
             ELSE Num(map(dialValue.v, Zero, One, Ctrl[w].min.v, Ctrl[w].max.v))
  IN  KindResult([x \in Widgets |-> IF TypeOf(val[x]) = "number" THEN arg ELSE val[x]],
                 col, sel, <<arg>>, "none")

\* lines 198-202; arithmetic on an undefined __min / __max gives NaN
handleNumberControl(dialValue, w, val, col, sel) ==
  LET arg == IF Ctrl[w].min = Undefined \/ Ctrl[w].max = Undefined THEN NaN
             ELSE Num(map(dialValue.v, Zero, One, Ctrl[w].min.v, Ctrl[w].max.v))
  IN  KindResult([val EXCEPT ![w] = arg], col, sel, <<arg>>, "none")

\* lines 204-209 with >= for the > of line 205
handleBooleanControl_NonStrict(raw, w, val, col, sel) ==
  LET arg == IF ~RLt(raw.v, Half) THEN Bool(TRUE) ELSE Bool(FALSE)
  IN  KindResult([val EXCEPT ![w] = arg], col, sel, <<arg>>, "none")

\* lines 204-209
handleBooleanControl(raw, w, val, col, sel) ==
  LET arg == IF RGt(raw.v, Half) THEN Bool(TRUE) ELSE Bool(FALSE)
  IN  KindResult([val EXCEPT ![w] = arg], col, sel, <<arg>>, "none")

\* lines 211-223
handleColorControl(raw, w, val, col, sel) ==
  IF Truthy(raw)
  THEN LET c == HSV(RMul(raw.v, Rat(360, 1)), One, Half)
       IN  KindResult([val EXCEPT ![w] = toOriginal(c)], [col EXCEPT ![w] = c],
                      sel, <<toOriginal(c)>>, "none")
  ELSE KindResult(val, col, sel, <<>>, "none")

\* lines 225-227 with the index clamped to the last option
handleOptionControl_Clamped(raw, w, val, col, sel) ==
  IF Ctrl[w].options = 0 THEN KindResult(val, col, sel, <<>>, "TypeError")
  ELSE LET i == RFloor(RMul(raw.v, Rat(Ctrl[w].options, 1)))
       IN  KindResult(val, col,
                      [sel EXCEPT ![w] = IF i > Ctrl[w].options - 1
                                         THEN Ctrl[w].options - 1 ELSE i],
                      <<>>, "none")

\* lines 225-227; a controller without __select makes the assignment throw
handleOptionControl(raw, w, val, col, sel) ==
  IF Ctrl[w].options = 0 THEN KindResult(val, col, sel, <<>>, "TypeError")
  ELSE KindResult(val, col,
                  [sel EXCEPT ![w] = RFloor(RMul(raw.v, Rat(Ctrl[w].options, 1)))],
                  <<>>, "none")

dispatch(handler, raw, w, val, col, sel) ==
  CASE handler = "handleColorControl"   -> handleColorControl(raw, w, val, col, sel)
    [] handler = "handleBooleanControl" -> handleBooleanControl(raw, w, val, col, sel)
    [] handler = "handleNumberControl"  -> handleNumberControl(raw, w, val, col, sel)
    [] handler = "handleOptionControl"  -> handleOptionControl(raw, w, val, col, sel)

(***************************************************************************)
(* controller.show() (lines 269-277): append the <li> to fireList, cancel  *)
(* the timer the timeout field names, schedule a new one.  setTimeout      *)
(* returns an id no pending timer has.  The value -1 of the timeout field  *)
(* ("no timer") is NoTimer.                                                *)
(***************************************************************************)
TimerIds == 1..(MaxRegistry + 1)

\* timer ids are told apart per controller: <<w, k>> with k the least number
\* no pending timer of w has
freshId(w, tms) ==
  LET used == { t.id[2] : t \in { u \in tms : u.w = w } }
  IN  <<w, CHOOSE k \in TimerIds : k \notin used /\ \A j \in 1..(k - 1) : j \in used>>

show(w, tmo, tms, fl) ==
  LET cleared == IF tmo[w] # NoTimer THEN { t \in tms : t.id # tmo[w] } ELSE tms
      id == freshId(w, cleared)
  IN  [timeout |-> [tmo EXCEPT ![w] = id],
       timers |-> cleared \cup { [id |-> id, w |-> w] },
       fireList |-> fl \cup {w}]

(***************************************************************************)
(* handleValueChange (lines 185-196 / 467-473).                            *)
(***************************************************************************)
ValueResult(cc, k, sh, handler, e) ==
  [cc |-> cc, value |-> k.value, color |-> k.color, selectedIndex |-> k.selectedIndex,
   timeout |-> sh.timeout, timers |-> sh.timers, fireList |-> sh.fireList,
   handler |-> handler, sets |-> k.sets, threw |-> e]

handleValueChange(snap, cc, ctrls, p, val, col, sel, tmo, tms, fl) ==
  LET same   == KindResult(val, col, sel, <<>>, "none")
      hidden == [timeout |-> tmo, timers |-> tms, fireList |-> fl]
  IN
  IF Len(ctrls) = 0 \/ ~Truthy(snap) THEN ValueResult(cc, same, hidden, "none", "none")
  ELSE
    LET cc1 == getControllerByKey(ctrls, snap.key)
    IN  IF cc1 = Undefined
        THEN \* cc1.show() or the read of cc1.__li throws
             ValueResult(cc1, same, hidden, "none", "TypeError")
        ELSE
          LET sh == IF variant = 1 /\ p.simpleGui THEN show(cc1.w, tmo, tms, fl) ELSE hidden
              handler == controllerMap[getControllerType(cc1, val)]
              k == dispatch(handler, snap.val, cc1.w, val, col, sel)
          IN  ValueResult(cc1, k, sh, handler, k.threw)

(***************************************************************************)
(* The key of the snapshot delivered for database.ref(dbRef + ref): the     *)
(* last segment of the path.  With a root that ends in "/" that is ref;    *)
(* with a root without the slash the two strings run together.             *)
(***************************************************************************)
EndsWithSlash(root) == root \in { "things/" }
SnapshotKey(root, ref) == IF EndsWithSlash(root) THEN ref ELSE root \o ref

Sub(root, ref, handler) ==
  [path |-> root \o ref, key |-> SnapshotKey(root, ref), handler |-> handler]

RECURSIVE perWidgetSubs(_, _)
perWidgetSubs(ctrls, p) ==
  IF ctrls = <<>> THEN <<>>
  ELSE <<Sub(p.dbRef, Ctrl[Head(ctrls).controller].property, "handleValueChange")>>
         \o perWidgetSubs(Tail(ctrls), p)

\* lines 129-136 / 415-422 without the subscription of lines 135-136
prevNextSubs_NoValue(p) ==
  << Sub(p.dbRef, p.prevRef, "handlePrev"),
     Sub(p.dbRef, p.nextRef, "handleNext") >>

\* lines 129-136 / 415-422
prevNextSubs(p) ==
  << Sub(p.dbRef, p.prevRef, "handlePrev"),
     Sub(p.dbRef, p.nextRef, "handleNext"),
     Sub(p.dbRef, IF variant = 1 THEN p.valueRef ELSE p.dialRef, "handleValueChange") >>

(***************************************************************************)
(* History of the current run of truthy triggers: all-next runs no longer  *)
(* than the registry and the two-trigger runs next,prev and prev,next are  *)
(* followed; any other trigger starts a new run.                           *)
(***************************************************************************)
NoRun(i) == [start |-> i, ops |-> <<>>]

Followed(ops, n) ==
  \/ Len(ops) <= n /\ \A k \in DOMAIN ops : ops[k] = "next"
  \/ ops = <<"next", "prev">>
  \/ ops = <<"prev", "next">>

Extend(r, op, i, n) ==
  IF Followed(Append(r.ops, op), n) THEN [r EXCEPT !.ops = Append(r.ops, op)]
  ELSE [start |-> i, ops |-> <<op>>]

(***************************************************************************)
(* init (lines 104-123 / 390-409) with initPrevNext (125-139 / 411-425)    *)
(* and setupSimpleGui (295-304).  Variant 1 resolves the params before it  *)
(* builds the registry, variant 2 after.                                   *)
(***************************************************************************)
init(call, hp) ==
  /\ gui = Undefined
  /\ LET p   == handleParams(hp)
         add == IF call.isArray
                THEN addControllers(call.items, controllers, IF variant = 1 THEN p ELSE params,
                                    timeout)
                ELSE addAllControllersFromGui(call.gui, controllers,
                                              IF variant = 1 THEN p ELSE params, timeout)
         nav == handleNext(Bool(TRUE), currentControllerIndex, currentController,
                           add.controllers, bg)
     IN  /\ Len(add.controllers) <= MaxRegistry
         /\ gui' = call.gui
         /\ params' = p
         /\ controllers' = add.controllers
         /\ timeout' = add.timeout
         /\ initLen' = Len(add.controllers)
         /\ IF p.usePrevNext
            THEN /\ subs' = subs \o prevNextSubs(p)
                 /\ currentControllerIndex' = nav.idx
                 /\ currentController' = nav.cc
                 /\ bg' = nav.bg
                 /\ threw' = nav.threw
            ELSE /\ subs' = subs \o perWidgetSubs(add.controllers, p)
                 /\ threw' = "none"
                 /\ UNCHANGED <<currentControllerIndex, currentController, bg>>
         /\ last' = [op |-> "init", isArray |-> call.isArray, items |-> call.items]
         /\ run' = NoRun(currentControllerIndex')
  /\ UNCHANGED <<variant, value, color, selectedIndex, timers, fireList>>

(***************************************************************************)
(* The host adds controllers after construction (addControllers is the     *)
(* class's public method).                                                 *)
(***************************************************************************)
addControllersCall(list) ==
  /\ Len(controllers) + Len(list) <= MaxRegistry
  /\ LET add == addControllers(list, controllers, params, timeout)
     IN  /\ controllers' = add.controllers
         /\ timeout' = add.timeout
         /\ threw' = add.threw
  /\ last' = [op |-> "addControllers", list |-> list]
  /\ run' = NoRun(currentControllerIndex)
  /\ UNCHANGED <<variant, gui, params, currentControllerIndex, currentController, subs,
                 bg, value, color, selectedIndex, timers, fireList, initLen>>

(***************************************************************************)
(* The database delivers a notification to one subscription.               *)
(***************************************************************************)
Nav(r, op, payload) ==
  /\ currentControllerIndex' = r.idx
  /\ currentController' = r.cc
  /\ bg' = r.bg
  /\ threw' = r.threw
  /\ last' = [op |-> "handle" \o op, truthy |-> Truthy(payload)]
  /\ run' = IF Truthy(payload)
            THEN Extend(run, IF op = "Next" THEN "next" ELSE "prev",
                        currentControllerIndex, Len(controllers))
            ELSE NoRun(currentControllerIndex)
  /\ UNCHANGED <<variant, gui, params, controllers, subs, value, color, selectedIndex,
                 timeout, timers, fireList, initLen>>

notifyPrev(i, payload) ==
  /\ subs[i].handler = "handlePrev"
  /\ \E r \in { handlePrev(Snapshot(subs[i].key, payload), currentControllerIndex,
                            currentController, controllers, bg) } :
       Nav(r, "Prev", payload)

notifyNext(i, payload) ==
  /\ subs[i].handler = "handleNext"
  /\ \E r \in { handleNext(Snapshot(subs[i].key, payload), currentControllerIndex,
                            currentController, controllers, bg) } :
       Nav(r, "Next", payload)

notifyValue(i, raw) ==
  /\ subs[i].handler = "handleValueChange"
  /\ \E r \in { handleValueChange(Snapshot(subs[i].key, raw), currentController,
                                  controllers, params, value, color, selectedIndex,
                                  timeout, timers, fireList) } :
         /\ currentController' = r.cc
         /\ value' = r.value
         /\ color' = r.color
         /\ selectedIndex' = r.selectedIndex
         /\ timeout' = r.timeout
         /\ timers' = r.timers
         /\ fireList' = r.fireList
         /\ threw' = r.threw
         /\ last' = [op |-> "handleValueChange", key |-> subs[i].key, raw |-> raw,
                     handler |-> r.handler, sets |-> Len(r.sets)]
  /\ run' = NoRun(currentControllerIndex)
  /\ UNCHANGED <<variant, gui, params, controllers, currentControllerIndex, subs, bg,
                 initLen>>

(***************************************************************************)
(* A pending auto-hide timer fires: controller.hide() (lines 263-267).     *)
(* removeChild of an <li> that is not in fireList throws.                  *)
(***************************************************************************)
timerFires(t) ==
  /\ t \in timers
  /\ timers' = timers \ {t}
  /\ IF t.w \in fireList
     THEN /\ fireList' = fireList \ {t.w}
          /\ timeout' = [timeout EXCEPT ![t.w] = NoTimer]
          /\ threw' = "none"
     ELSE /\ threw' = "NotFoundError"
          /\ UNCHANGED <<fireList, timeout>>
  /\ last' = [op |-> "hide", w |-> t.w]
  /\ run' = NoRun(currentControllerIndex)
  /\ UNCHANGED <<variant, gui, params, controllers, currentControllerIndex,
                 currentController, subs, bg, value, color, selectedIndex, initLen>>

Next ==
  \/ \E call \in InitCalls, hp \in HostParams : init(call, hp)
  \/ \E list \in AddLists : addControllersCall(list)
  \/ \E i \in DOMAIN subs, k \in DOMAIN NavPayload : notifyPrev(i, NavPayload[k])
  \/ \E i \in DOMAIN subs, k \in DOMAIN NavPayload : notifyNext(i, NavPayload[k])
  \/ \E i \in DOMAIN subs, raw \in Raws : notifyValue(i, raw)
  \/ \E t \in timers : timerFires(t)

Spec == Init /\ [][Next]_vars

(***************************************************************************)
(* Abbreviations for the properties.                                       *)
(***************************************************************************)
Inited     == gui # Undefined
CursorMode == Inited /\ params.usePrevNext
PerWidget  == Inited /\ ~params.usePrevNext
N          == Len(controllers)
InRange(i) == i \in 0..(N - 1)
AllNext(ops) == \A k \in DOMAIN ops : ops[k] = "next"
IsNav      == last.op \in {"handlePrev", "handleNext"}
IsValue    == last.op = "handleValueChange"
Highlighted == { w \in Widgets : bg[w] = "#555555" }
PendingTimers(w) == { t \in timers : t.w = w }

\* C1: in cursor mode with a non-empty registry, a value notification applies
\* the scalar to the widget at the cursor index, registry[currentControllerIndex],
\* and to no other: the handler completes, dispatches a kind handler, and its
\* target is that widget.
C1_ValueGoesToCursorWidget ==
  (CursorMode /\ N >= 1 /\ IsValue) =>
     /\ threw = "none"
     /\ last.handler # "none"
     /\ InRange(currentControllerIndex)
     /\ currentController = CtrlRef(controllers[currentControllerIndex + 1].controller)

\* C2: in cursor mode, with a registry that had N >= 1 entries at initialisation,
\* currentControllerIndex is in [0, N) after init and after every prev, next and
\* value notification.
C2_IndexInRange ==
  (CursorMode /\ initLen >= 1) => InRange(currentControllerIndex)

C2_Witness ==
  /\ CursorMode /\ initLen >= 1 /\ N >= 2
  /\ last.op = "handlePrev" /\ last.truthy
  /\ run = [start |-> 0, ops |-> <<"prev">>]
  /\ currentControllerIndex = N - 1

\* C3: in cursor mode with a non-empty registry, after init and every later
\* notification exactly one container carries the highlight #555555, the one of
\* the widget at the cursor index.
C3_OneHighlightAtCursor ==
  (CursorMode /\ initLen >= 1) =>
     /\ InRange(currentControllerIndex)
     /\ Highlighted = { controllers[currentControllerIndex + 1].controller }

\* C4: with an empty registry a truthy prev or next trigger is a no-op that
\* raises no error: the cursor stays at -1 and nothing is highlighted.
C4_EmptyRegistryNoOp ==
  (CursorMode /\ N = 0 /\ IsNav /\ last.truthy) =>
     /\ threw = "none"
     /\ currentControllerIndex = -1
     /\ Highlighted = {}

\* C5: in per-widget mode a value notification whose key matches no registry
\* entry is skipped silently: no kind handler is dispatched and no error is raised.
C5_UnmatchedKeySkipped ==
  (PerWidget /\ IsValue /\ \A k \in DOMAIN controllers : controllers[k].key # last.key) =>
     /\ threw = "none"
     /\ last.handler = "none"

\* C6: when init returns in cursor mode with a non-empty registry, the cursor is
\* at index 0 and widget 0 is highlighted.
C6_InitSelectsAndHighlightsFirst ==
  (CursorMode /\ initLen >= 1 /\ last.op = "init") =>
     /\ currentControllerIndex = 0
     /\ bg[controllers[1].controller] = "#555555"

C9_FalsyTriggerChangesNothing ==
  [][ (last'.op \in {"handlePrev", "handleNext"} /\ ~last'.truthy) =>
        /\ currentControllerIndex' = currentControllerIndex
        /\ currentController' = currentController
        /\ bg' = bg ]_vars

C9_Witness ==
  /\ CursorMode /\ N >= 2 /\ IsNav /\ ~last.truthy
  /\ currentControllerIndex = 1
  /\ currentController = EntryRef(0)

\* C10: for a numeric widget with bounds min < max, the value passed to the
\* setter on a value notification is min + raw * (max - min).
C10_NumberIsAffine ==
  (IsValue /\ last.handler = "handleNumberControl"
     /\ Ctrl[currentController.w].min # Undefined
     /\ Ctrl[currentController.w].max # Undefined
     /\ RLt(Ctrl[currentController.w].min.v, Ctrl[currentController.w].max.v)) =>
     LET min == Ctrl[currentController.w].min.v
         max == Ctrl[currentController.w].max.v
     IN  /\ last.sets = 1
         /\ value[currentController.w] = Num(RAdd(min, RMul(last.raw.v, RSub(max, min))))

C10_Witness ==
  /\ PerWidget /\ IsValue /\ last.key = "dieSpeed" /\ last.raw = Num(Rat(1, 4))
  /\ last.handler = "handleNumberControl"
  /\ value[2] = Num(Rat(1, 40))

\* C11: for a color widget and every raw in [0, 1], raw = 0 included, one value
\* notification sets __color to hue raw * 360, saturation 1 and value 0.5, and
\* calls setValue exactly once, with the converted colour.
C11_ColorSetOnceForEveryRaw ==
  (IsValue /\ last.handler = "handleColorControl") =>
     LET c == HSV(RMul(last.raw.v, Rat(360, 1)), One, Half)
     IN  /\ last.sets = 1
         /\ color[currentController.w] = c
         /\ value[currentController.w] = toOriginal(c)

\* C12: for a boolean widget a value notification calls setValue once, with true
\* exactly when raw > 0.5: raw = 0 and raw = 0.5 give false, raw = 1 and every
\* raw above 0.5 give true.
C12_BooleanStrictThreshold ==
  (IsValue /\ last.handler = "handleBooleanControl") =>
     /\ last.sets = 1
     /\ value[currentController.w] \in { Bool(TRUE), Bool(FALSE) }
     /\ value[currentController.w] = Bool(TRUE) <=> RGt(last.raw.v, Half)
     /\ last.raw.v \in { Zero, Half } => value[currentController.w] = Bool(FALSE)
     /\ last.raw.v = One => value[currentController.w] = Bool(TRUE)

C12_Witness ==
  /\ PerWidget /\ IsValue /\ last.key = "enabled" /\ last.raw = Num(Half)
  /\ last.handler = "handleBooleanControl"
  /\ value[4] = Bool(FALSE)

\* C13: for an option-backed widget with K options a value notification assigns
\* floor(raw * K) to selectedIndex, unclamped: 0 for raw = 0, an index in
\* [0, K - 1] for every raw in [0, 1), and the out-of-range K for raw = 1.
C13_OptionIndexIsFloor ==
  (IsValue /\ last.handler = "handleOptionControl" /\ threw = "none") =>
     LET K == Ctrl[currentController.w].options
         i == selectedIndex[currentController.w]
         r == last.raw.v
     IN  /\ i * r.d <= r.n * K /\ r.n * K < (i + 1) * r.d
         /\ r = Zero => i = 0
         /\ RLt(r, One) => i \in 0..(K - 1)
         /\ r = One => i = K

C13_Witness ==
  /\ PerWidget /\ IsValue /\ last.key = "mode" /\ last.raw = Num(One)
  /\ last.handler = "handleOptionControl" /\ threw = "none"
  /\ selectedIndex[5] = 3

C15_KeysUnique ==
  \A i \in DOMAIN controllers : \A j \in DOMAIN controllers :
     i # j => controllers[i].key # controllers[j].key

\* C16: with simpleGui every widget has at most one pending auto-hide timer; a
\* show leaves exactly one pending timer for the widget shown (a pending one is
\* cancelled and a new one scheduled); a hide fires only for a widget that is
\* shown, and after it the widget has no pending timer.
C16_OnePendingTimerPerWidget ==
  (Inited /\ params.simpleGui) =>
     /\ \A w \in Widgets : Cardinality(PendingTimers(w)) <= 1
     /\ (IsValue /\ last.handler # "none" /\ variant = 1) =>
          /\ Cardinality(PendingTimers(currentController.w)) = 1
          /\ currentController.w \in fireList
     /\ last.op = "hide" =>
          /\ threw = "none"
          /\ PendingTimers(last.w) = {}

\* C17: a value notification for a resolved widget invokes exactly one kind
\* handler: handleColorControl if the widget's <li> has the class "color",
\* whatever the type of its value; otherwise handleNumberControl or
\* handleBooleanControl when its value before the call is a number or a boolean;
\* otherwise handleOptionControl.
C17_DispatchByKind ==
  [][ (last'.op = "handleValueChange" /\ currentController'.t = "ctrl") =>
        LET w == currentController'.w
        IN  last'.handler =
              IF Ctrl[w].color THEN "handleColorControl"
              ELSE IF TypeOf(value[w]) = "number" THEN "handleNumberControl"
              ELSE IF TypeOf(value[w]) = "boolean" THEN "handleBooleanControl"
              ELSE "handleOptionControl" ]_vars

C17_Witness ==
  /\ PerWidget /\ IsValue /\ last.key = "color1"
  /\ currentController = CtrlRef(3) /\ TypeOf(value[3]) = "number"
  /\ last.handler = "handleColorControl" /\ last.sets = 1

\* C18: when several registry entries carry the same key, a per-widget value
\* notification for that key goes to the first-registered entry with the key,
\* every time, and the controller of a later entry with the key is left as it was.
C18_FirstEntryWithKeyIsTarget ==
  [][ (last'.op = "handleValueChange" /\ PerWidget
         /\ \E i \in DOMAIN controllers : controllers[i].key = last'.key) =>
        LET hits  == { i \in DOMAIN controllers : controllers[i].key = last'.key }
            first == CHOOSE i \in hits : \A j \in hits : i <= j
            w     == controllers[first].controller
        IN  /\ currentController' = CtrlRef(w)
            /\ \A j \in hits :
                 controllers[j].controller # w =>
                   /\ value'[controllers[j].controller] = value[controllers[j].controller]
                   /\ color'[controllers[j].controller] = color[controllers[j].controller]
                   /\ selectedIndex'[controllers[j].controller]
                        = selectedIndex[controllers[j].controller] ]_vars

C18_Witness ==
  /\ PerWidget /\ IsValue /\ last.key = "speed" /\ last.raw = Num(Half)
  /\ controllers = << [key |-> "speed", controller |-> 1],
                      [key |-> "speed", controller |-> 7] >>
  /\ currentController = CtrlRef(1)
  /\ value[1] = Num(Rat(3, 2)) /\ value[7] = Num(Zero)

\* C19: the registry is append-only and in discovery order.  Every step leaves
\* the entries it had as an unchanged prefix; init from a GUI appends the
\* top-level controllers in order, then each folder's controllers in folder
\* order; init from an array and every addControllers call that returns append
\* the controllers given, in the order given; no other operation touches it.
C19_AppendOnlyInDiscoveryOrder ==
  [][ LET old   == Len(controllers)
          added == SubSeq(controllers', old + 1, Len(controllers'))
          EntriesOf(l) == [i \in 1..Len(l) |->
                            [key |-> Ctrl[l[i]].property, controller |-> l[i]]]
      IN  /\ Len(controllers') >= old
          /\ SubSeq(controllers', 1, old) = controllers
          /\ (last'.op = "init" /\ ~last'.isArray) =>
               added = EntriesOf(gui'.controllers \o Flatten(gui'.folders))
          /\ (last'.op = "init" /\ last'.isArray) => added = EntriesOf(last'.items)
          /\ (last'.op = "addControllers" /\ threw' = "none") =>
               added = EntriesOf(last'.list)
          /\ last'.op \notin {"init", "addControllers"} => added = <<>> ]_vars

C19_Witness ==
  /\ Inited /\ initLen = 1 /\ last.op = "addControllers" /\ threw = "none"
  /\ controllers = << [key |-> "value", controller |-> 6],
                      [key |-> "value", controller |-> 6],
                      [key |-> "speed", controller |-> 1] >>

\* C20: a value notification changes nothing but the widget it resolves: the
\* cursor index, the registry, the subscriptions and the highlights are as
\* before, and every other widget keeps its value, colour, selected index,
\* timeout field, pending timers and place in or out of fireList.
C20_ValueChangeTouchesOnlyTarget ==
  [][ last'.op = "handleValueChange" =>
        /\ currentControllerIndex' = currentControllerIndex
        /\ controllers' = controllers
        /\ subs' = subs
        /\ bg' = bg
        /\ \A w \in Widgets :
             currentController' # CtrlRef(w) =>
               /\ value'[w] = value[w]
               /\ color'[w] = color[w]
               /\ selectedIndex'[w] = selectedIndex[w]
               /\ timeout'[w] = timeout[w]
               /\ { t \in timers' : t.w = w } = { t \in timers : t.w = w }
               /\ (w \in fireList') <=> (w \in fireList) ]_vars

C20_Witness ==
  /\ CursorMode /\ IsValue /\ last.raw = Num(Half) /\ threw = "none"
  /\ controllers = << [key |-> "value", controller |-> 6],
                      [key |-> "speed", controller |-> 1] >>
  /\ currentControllerIndex = 1
  /\ currentController = CtrlRef(6)
  /\ value[6] = Num(Rat(3, 2)) /\ value[1] = Num(One)

====
